---- MODULE Spec2Model ----
(***************************************************************************)
(* Model of the ML worker of graphrag-notes: the lazily loaded embedding   *)
(* model (ml_worker/embeddings.py), the regex entity extractor             *)
(* (ml_worker/entities.py) and the FastAPI request layer                   *)
(* (ml_worker/server.py).                                                  *)
(*                                                                         *)
(* A text is a sequence of one-character strings; offsets are 0-based and  *)
(* end-exclusive as in Python, so text[i+1] is the character at offset i.  *)
(***************************************************************************)
EXTENDS Integers, Sequences, FiniteSets, TLC

\* ------------------------------------------------------------------------
\* Bounds of the model
\* ------------------------------------------------------------------------

\* Number of pieces an input text of the extractor is concatenated from.
MaxPieces == 3

\* Number of requests (and direct calls) made of the worker.
NumRequests == 2

\* Longest list of texts sent for embedding.
MaxTexts == 2

\* Number of components of an embedding vector.
VectorLen == 2

\* ------------------------------------------------------------------------
\* Characters: str.lower(), \w, \d, \s over the ASCII letters and digits
\* ------------------------------------------------------------------------

LowerOf ==
  [A |-> "a", B |-> "b", C |-> "c", D |-> "d", E |-> "e", F |-> "f", G |-> "g",
   H |-> "h", I |-> "i", J |-> "j", K |-> "k", L |-> "l", M |-> "m", N |-> "n",
   O |-> "o", P |-> "p", Q |-> "q", R |-> "r", S |-> "s", T |-> "t", U |-> "u",
   V |-> "v", W |-> "w", X |-> "x", Y |-> "y", Z |-> "z"]

UpperLetters == DOMAIN LowerOf

LowerLetters == {LowerOf[c] : c \in UpperLetters}

Digits == {"0", "1", "2", "3", "4", "5", "6", "7", "8", "9"}

Whitespace == {" ", "\t", "\n", "\r", "\f"}

\* str.lower() of one character.
Lower(c) == IF c \in UpperLetters THEN LowerOf[c] ELSE c

\* str.lower() of a string.
LowerStr(s) == [i \in 1..Len(s) |-> Lower(s[i])]

\* \w: a letter, a digit or the underscore.
IsWord(c) == c \in UpperLetters \cup LowerLetters \cup Digits \cup {"_"}

\* ------------------------------------------------------------------------
\* Regular expressions of PATTERNS, as sequences of items
\* ------------------------------------------------------------------------

\* \b
WB == [k |-> "wb"]

\* A run of literal characters.
Lit(s) == [k |-> "lit", s |-> s]

\* A character class repeated lo..hi times, greedily: \d{1,2}, ,?, [1-4].
Rep(set, lo, hi) == [k |-> "rep", set |-> set, lo |-> lo, hi |-> hi, many |-> FALSE]

\* A character class repeated lo or more times, greedily: \s+.
AtLeast(set, lo) == [k |-> "rep", set |-> set, lo |-> lo, hi |-> lo, many |-> TRUE]

\* (a|b|...): the alternatives in order, each a sequence of items.
Alt(alts) == [k |-> "alt", alts |-> alts]

\* ------------------------------------------------------------------------
\* PATTERNS (entities.py), one definition per regular expression
\* ------------------------------------------------------------------------

\* \b(Python|Rust|JavaScript|TypeScript|Go|Java|C\+\+|Ruby|Swift|Kotlin)\b
TECHNOLOGY_1 ==
  <<WB, Alt(<<
      <<Lit(<<"P", "y", "t", "h", "o", "n">>)>>,
      <<Lit(<<"R", "u", "s", "t">>)>>,
      <<Lit(<<"J", "a", "v", "a", "S", "c", "r", "i", "p", "t">>)>>,
      <<Lit(<<"T", "y", "p", "e", "S", "c", "r", "i", "p", "t">>)>>,
      <<Lit(<<"G", "o">>)>>,
      <<Lit(<<"J", "a", "v", "a">>)>>,
      <<Lit(<<"C", "+", "+">>)>>,
      <<Lit(<<"R", "u", "b", "y">>)>>,
      <<Lit(<<"S", "w", "i", "f", "t">>)>>,
      <<Lit(<<"K", "o", "t", "l", "i", "n">>)>> >>), WB>>

\* \b(React|Vue|Angular|Next\.js|FastAPI|Django|Flask|Express)\b
TECHNOLOGY_2 ==
  <<WB, Alt(<<
      <<Lit(<<"R", "e", "a", "c", "t">>)>>,
      <<Lit(<<"V", "u", "e">>)>>,
      <<Lit(<<"A", "n", "g", "u", "l", "a", "r">>)>>,
      <<Lit(<<"N", "e", "x", "t", ".", "j", "s">>)>>,
      <<Lit(<<"F", "a", "s", "t", "A", "P", "I">>)>>,
      <<Lit(<<"D", "j", "a", "n", "g", "o">>)>>,
      <<Lit(<<"F", "l", "a", "s", "k">>)>>,
      <<Lit(<<"E", "x", "p", "r", "e", "s", "s">>)>> >>), WB>>

\* \b(PostgreSQL|MySQL|MongoDB|Redis|SurrealDB|Neo4j|Elasticsearch)\b
TECHNOLOGY_3 ==
  <<WB, Alt(<<
      <<Lit(<<"P", "o", "s", "t", "g", "r", "e", "S", "Q", "L">>)>>,
      <<Lit(<<"M", "y", "S", "Q", "L">>)>>,
      <<Lit(<<"M", "o", "n", "g", "o", "D", "B">>)>>,
      <<Lit(<<"R", "e", "d", "i", "s">>)>>,
      <<Lit(<<"S", "u", "r", "r", "e", "a", "l", "D", "B">>)>>,
      <<Lit(<<"N", "e", "o", "4", "j">>)>>,
      <<Lit(<<"E", "l", "a", "s", "t", "i", "c", "s", "e", "a", "r", "c", "h">>)>> >>), WB>>

\* \b(Docker|Kubernetes|AWS|GCP|Azure|Terraform|Ansible)\b
TECHNOLOGY_4 ==
  <<WB, Alt(<<
      <<Lit(<<"D", "o", "c", "k", "e", "r">>)>>,
      <<Lit(<<"K", "u", "b", "e", "r", "n", "e", "t", "e", "s">>)>>,
      <<Lit(<<"A", "W", "S">>)>>,
      <<Lit(<<"G", "C", "P">>)>>,
      <<Lit(<<"A", "z", "u", "r", "e">>)>>,
      <<Lit(<<"T", "e", "r", "r", "a", "f", "o", "r", "m">>)>>,
      <<Lit(<<"A", "n", "s", "i", "b", "l", "e">>)>> >>), WB>>

\* \b(TensorFlow|PyTorch|scikit-learn|XGBoost|LangChain)\b
TECHNOLOGY_5 ==
  <<WB, Alt(<<
      <<Lit(<<"T", "e", "n", "s", "o", "r", "F", "l", "o", "w">>)>>,
      <<Lit(<<"P", "y", "T", "o", "r", "c", "h">>)>>,
      <<Lit(<<"s", "c", "i", "k", "i", "t", "-", "l", "e", "a", "r", "n">>)>>,
      <<Lit(<<"X", "G", "B", "o", "o", "s", "t">>)>>,
      <<Lit(<<"L", "a", "n", "g", "C", "h", "a", "i", "n">>)>> >>), WB>>

\* \b(GPT-\d|Claude|LLaMA|BERT|Transformer)\b
TECHNOLOGY_6 ==
  <<WB, Alt(<<
      <<Lit(<<"G", "P", "T", "-">>), Rep(Digits, 1, 1)>>,
      <<Lit(<<"C", "l", "a", "u", "d", "e">>)>>,
      <<Lit(<<"L", "L", "a", "M", "A">>)>>,
      <<Lit(<<"B", "E", "R", "T">>)>>,
      <<Lit(<<"T", "r", "a", "n", "s", "f", "o", "r", "m", "e", "r">>)>> >>), WB>>

\* \b(API|REST|GraphQL|gRPC|WebSocket)\b
TECHNOLOGY_7 ==
  <<WB, Alt(<<
      <<Lit(<<"A", "P", "I">>)>>,
      <<Lit(<<"R", "E", "S", "T">>)>>,
      <<Lit(<<"G", "r", "a", "p", "h", "Q", "L">>)>>,
      <<Lit(<<"g", "R", "P", "C">>)>>,
      <<Lit(<<"W", "e", "b", "S", "o", "c", "k", "e", "t">>)>> >>), WB>>

\* \b(\d{4}-\d{2}-\d{2})\b
DATE_1 ==
  <<WB, Rep(Digits, 4, 4), Lit(<<"-">>), Rep(Digits, 2, 2), Lit(<<"-">>), Rep(Digits, 2, 2), WB>>

\* \b(\d{1,2}/\d{1,2}/\d{4})\b
DATE_2 ==
  <<WB, Rep(Digits, 1, 2), Lit(<<"/">>), Rep(Digits, 1, 2), Lit(<<"/">>), Rep(Digits, 4, 4), WB>>

\* \b(January|February|March|April|May|June|July|August|September|October|November|December)\s+\d{1,2},?\s+\d{4}\b
DATE_3 ==
  <<WB, Alt(<<
      <<Lit(<<"J", "a", "n", "u", "a", "r", "y">>)>>,
      <<Lit(<<"F", "e", "b", "r", "u", "a", "r", "y">>)>>,
      <<Lit(<<"M", "a", "r", "c", "h">>)>>,
      <<Lit(<<"A", "p", "r", "i", "l">>)>>,
      <<Lit(<<"M", "a", "y">>)>>,
      <<Lit(<<"J", "u", "n", "e">>)>>,
      <<Lit(<<"J", "u", "l", "y">>)>>,
      <<Lit(<<"A", "u", "g", "u", "s", "t">>)>>,
      <<Lit(<<"S", "e", "p", "t", "e", "m", "b", "e", "r">>)>>,
      <<Lit(<<"O", "c", "t", "o", "b", "e", "r">>)>>,
      <<Lit(<<"N", "o", "v", "e", "m", "b", "e", "r">>)>>,
      <<Lit(<<"D", "e", "c", "e", "m", "b", "e", "r">>)>> >>), AtLeast(Whitespace, 1), Rep(Digits, 1, 2), Rep({","}, 0, 1), AtLeast(Whitespace, 1), Rep(Digits, 4, 4), WB>>

\* \b(Q[1-4]\s+\d{4})\b
DATE_4 ==
  <<WB, Lit(<<"Q">>), Rep({"1", "2", "3", "4"}, 1, 1), AtLeast(Whitespace, 1), Rep(Digits, 4, 4), WB>>

\* \b(machine learning|deep learning|neural network|artificial intelligence)\b
CONCEPT_1 ==
  <<WB, Alt(<<
      <<Lit(<<"m", "a", "c", "h", "i", "n", "e", " ", "l", "e", "a", "r", "n", "i", "n", "g">>)>>,
      <<Lit(<<"d", "e", "e", "p", " ", "l", "e", "a", "r", "n", "i", "n", "g">>)>>,
      <<Lit(<<"n", "e", "u", "r", "a", "l", " ", "n", "e", "t", "w", "o", "r", "k">>)>>,
      <<Lit(<<"a", "r", "t", "i", "f", "i", "c", "i", "a", "l", " ", "i", "n", "t", "e", "l", "l", "i", "g", "e", "n", "c", "e">>)>> >>), WB>>

\* \b(knowledge graph|vector search|semantic search|RAG)\b
CONCEPT_2 ==
  <<WB, Alt(<<
      <<Lit(<<"k", "n", "o", "w", "l", "e", "d", "g", "e", " ", "g", "r", "a", "p", "h">>)>>,
      <<Lit(<<"v", "e", "c", "t", "o", "r", " ", "s", "e", "a", "r", "c", "h">>)>>,
      <<Lit(<<"s", "e", "m", "a", "n", "t", "i", "c", " ", "s", "e", "a", "r", "c", "h">>)>>,
      <<Lit(<<"R", "A", "G">>)>> >>), WB>>

\* \b(microservices?|serverless|event-driven|distributed system)\b
CONCEPT_3 ==
  <<WB, Alt(<<
      <<Lit(<<"m", "i", "c", "r", "o", "s", "e", "r", "v", "i", "c", "e">>), Rep({"s"}, 0, 1)>>,
      <<Lit(<<"s", "e", "r", "v", "e", "r", "l", "e", "s", "s">>)>>,
      <<Lit(<<"e", "v", "e", "n", "t", "-", "d", "r", "i", "v", "e", "n">>)>>,
      <<Lit(<<"d", "i", "s", "t", "r", "i", "b", "u", "t", "e", "d", " ", "s", "y", "s", "t", "e", "m">>)>> >>), WB>>

PATTERNS ==
  << [entity_type |-> "technology", patterns |-> <<TECHNOLOGY_1, TECHNOLOGY_2, TECHNOLOGY_3, TECHNOLOGY_4, TECHNOLOGY_5, TECHNOLOGY_6, TECHNOLOGY_7>>],
     [entity_type |-> "date", patterns |-> <<DATE_1, DATE_2, DATE_3, DATE_4>>],
     [entity_type |-> "concept", patterns |-> <<CONCEPT_1, CONCEPT_2, CONCEPT_3>>] >>

\* ------------------------------------------------------------------------
\* re.finditer(pattern, text, re.IGNORECASE)
\* ------------------------------------------------------------------------

\* \b at offset i: exactly one of the characters before and after is a \w.
AtBoundary(text, i) ==
  LET before == i > 0 /\ IsWord(text[i])
      after  == i < Len(text) /\ IsWord(text[i + 1])
  IN  before # after

\* The literal s stands at offset i of text, ignoring case.
LitAt(s, text, i) ==
  /\ i + Len(s) <= Len(text)
  /\ \A j \in 1..Len(s) : Lower(text[i + j]) = Lower(s[j])

\* The character c is in the class, ignoring case.
InClass(c, set) == \E d \in set : Lower(d) = Lower(c)

\* The longest run of class characters from offset i, at most cap long.
RunLen(set, text, i, cap) ==
  LET ok == {n \in 0..cap : /\ i + n <= Len(text)
                            /\ \A j \in 1..n : InClass(text[i + j], set)}
  IN  CHOOSE n \in ok : \A m \in ok : m <= n

RECURSIVE Ends(_, _, _)
RECURSIVE EndsRep(_, _, _, _, _)
RECURSIVE EndsAlt(_, _, _, _, _)

\* The offsets at which a match of the items starting at offset i can end, in
\* the order the backtracking matcher tries them; the first is the match.
Ends(items, text, i) ==
  IF items = <<>> THEN <<i>>
  ELSE LET h == Head(items)
           rest == Tail(items)
       IN  CASE h.k = "wb"  -> IF AtBoundary(text, i) THEN Ends(rest, text, i) ELSE <<>>
             [] h.k = "lit" -> IF LitAt(h.s, text, i)
                               THEN Ends(rest, text, i + Len(h.s)) ELSE <<>>
             [] h.k = "rep" ->
                  LET cap == IF h.many THEN Len(text) ELSE h.hi
                      n   == RunLen(h.set, text, i, cap)
                  IN  EndsRep(rest, text, i, n, h.lo)
             [] h.k = "alt" -> EndsAlt(h.alts, 1, rest, text, i)

\* Greedy repetition: n characters first, then one fewer, down to lo.
EndsRep(rest, text, i, n, lo) ==
  IF n < lo THEN <<>>
  ELSE Ends(rest, text, i + n) \o EndsRep(rest, text, i, n - 1, lo)

\* Alternation: the a-th alternative and what follows it, then the next one.
EndsAlt(alts, a, rest, text, i) ==
  IF a > Len(alts) THEN <<>>
  ELSE Ends(alts[a] \o rest, text, i) \o EndsAlt(alts, a + 1, rest, text, i)

RECURSIVE FindFrom(_, _, _)

\* The matches of pattern in text from offset pos on: leftmost first, each
\* search resuming where the previous match ended.
FindFrom(pattern, text, pos) ==
  LET hits == {i \in pos..Len(text) : Ends(pattern, text, i) # <<>>}
  IN  IF hits = {} THEN <<>>
      ELSE LET s == CHOOSE i \in hits : \A j \in hits : i <= j
               e == Head(Ends(pattern, text, s))
           IN  <<[start |-> s, end |-> e]>>
                 \o FindFrom(pattern, text, IF e > s THEN e ELSE s + 1)

finditer(pattern, text) == FindFrom(pattern, text, 0)

\* ------------------------------------------------------------------------
\* extract_entities
\* ------------------------------------------------------------------------

\* confidence=0.8, fixed for pattern matches.
CONFIDENCE == "0.8"

\* Faulty variant: the name taken from a lowercased copy of the text.
MatchGroup0_Lowered(text, m) == LowerStr(SubSeq(text, m.start + 1, m.end))

\* match.group(0): the slice of the searched string the match spans.
MatchGroup0(text, m) == SubSeq(text, m.start + 1, m.end)

\* ExtractedEntity(name=..., entity_type=..., start=..., end=..., confidence=0.8)
ExtractedEntity(text, entity_type, m) ==
  [name |-> MatchGroup0(text, m), entity_type |-> entity_type,
   start |-> m.start, end |-> m.end, confidence |-> CONFIDENCE]

\* Faulty variant: the key without the position.
DedupeKey_NameOnly(e) == <<LowerStr(e.name)>>

\* key = (name.lower(), start, end)
DedupeKey(e) == <<LowerStr(e.name), e.start, e.end>>

\* The (entity type, pattern) pairs in the order the two outer loops visit them.
PatternList ==
  LET RECURSIVE Flat(_)
      Flat(c) == IF c > Len(PATTERNS) THEN <<>>
                 ELSE [p \in 1..Len(PATTERNS[c].patterns) |->
                         [entity_type |-> PATTERNS[c].entity_type,
                          pattern |-> PATTERNS[c].patterns[p]]] \o Flat(c + 1)
  IN  Flat(1)

RECURSIVE ScanFrom(_, _)

\* Every match of every pattern, in the order the three loops produce them.
ScanFrom(text, p) ==
  IF p > Len(PatternList) THEN <<>>
  ELSE LET ms == finditer(PatternList[p].pattern, text)
       IN  [j \in 1..Len(ms) |-> ExtractedEntity(text, PatternList[p].entity_type, ms[j])]
             \o ScanFrom(text, p + 1)

Scan(text) == ScanFrom(text, 1)

RECURSIVE Dedupe(_, _, _)

\* The loop body: skip a candidate whose key is in seen, else add and append.
Dedupe(cands, seen, acc) ==
  IF cands = <<>> THEN acc
  ELSE LET e == Head(cands)
       IN  IF DedupeKey(e) \in seen
           THEN Dedupe(Tail(cands), seen, acc)
           ELSE Dedupe(Tail(cands), seen \cup {DedupeKey(e)}, Append(acc, e))

\* list.sort(key=...) is stable: e goes behind every element whose key is
\* not greater than its own.
InsertByStart(sorted, e) ==
  LET n == Cardinality({i \in 1..Len(sorted) : sorted[i].start <= e.start})
  IN  SubSeq(sorted, 1, n) \o <<e>> \o SubSeq(sorted, n + 1, Len(sorted))

RECURSIVE SortFrom(_, _)

SortFrom(es, acc) ==
  IF es = <<>> THEN acc ELSE SortFrom(Tail(es), InsertByStart(acc, Head(es)))

\* Faulty variant: the list left in scan order.
SortByStart_Unsorted(es) == es

\* entities.sort(key=lambda e: e.start)
SortByStart(es) == SortFrom(es, <<>>)

\* The loop over the matches, then the sort.
ExtractFrom(cands) == SortByStart(Dedupe(cands, {}, <<>>))

extract_entities(text) == ExtractFrom(Scan(text))

\* ------------------------------------------------------------------------
\* State
\* ------------------------------------------------------------------------

VARIABLES
  _model,     \* embeddings._model: None or the loaded SentenceTransformer
  loadCount,  \* number of SentenceTransformer(MODEL_NAME) constructions begun
  running,    \* the units of work executing on the event loop thread
  tasks,      \* the lifespan (task 0) and the requests: position and locals
  text,       \* extractor run: the input text
  scanned,    \* extractor run: the matches in the order the loops made them
  entities,   \* extractor run: the returned list
  epc         \* extractor run: "start", "done", or "off" while serving

vars == <<_model, loadCount, running, tasks, text, scanned, entities, epc>>

\* ------------------------------------------------------------------------
\* embeddings.py
\* ------------------------------------------------------------------------

\* _model: SentenceTransformer | None = None
None == [id |-> 0, ready |-> FALSE]

\* The object the n-th SentenceTransformer(MODEL_NAME) call returns.
SentenceTransformer(n) == [id |-> n, ready |-> TRUE]

\* Faulty variant: the model is loaded on every call.
NeedsLoad_Always(m) == TRUE

\* get_model: if _model is None
NeedsLoad(m) == m = None

\* Faulty variant: the global is bound to the object under construction
\* before the constructor has finished.
ModelAfterFailedLoad_Partial(m, n) == [id |-> n, ready |-> FALSE]

\* get_model: _model is assigned only when the constructor has returned, so
\* a constructor that raises leaves the global as it was.
ModelAfterFailedLoad(m, n) == m

\* Faulty variant: no early return for the empty list.
EmptyShortCircuit_Never(texts) == FALSE

\* generate_embeddings: if not texts: return []
EmptyShortCircuit(texts) == Len(texts) = 0

\* model.encode(texts, convert_to_numpy=True, normalize_embeddings=True): a
\* 2-d array, row i (0-based) the embedding of texts[i]; component j of the
\* embedding of a text is the abstract value <<text, j>>.
Encode(texts) ==
  [i \in 0..(Len(texts) - 1) |-> [j \in 0..(VectorLen - 1) |-> <<texts[i + 1], j>>]]

\* emb.tolist(): a 1-d array as a list.
ToList(emb) == [j \in 1..Cardinality(DOMAIN emb) |-> emb[j - 1]]

\* Faulty variant: the rows taken in reverse.
ToLists_Reversed(embeddings) ==
  LET n == Cardinality(DOMAIN embeddings)
  IN  [i \in 1..n |-> [j \in 1..Cardinality(DOMAIN embeddings[n - i]) |-> embeddings[n - i][j - 1]]]

\* [emb.tolist() for emb in embeddings]
ToLists(embeddings) ==
  [i \in 1..Cardinality(DOMAIN embeddings) |-> ToList(embeddings[i - 1])]

\* model.get_sentence_embedding_dimension()
GetSentenceEmbeddingDimension(m) == VectorLen

\* ------------------------------------------------------------------------
\* server.py: requests and responses
\* ------------------------------------------------------------------------

Lifespan == 0

Requests == 1..NumRequests

Tasks == {Lifespan} \cup Requests

\* A JSON body field: absent, or present with a value.
Absent == [present |-> FALSE, value |-> <<>>]

Given(v) == [present |-> TRUE, value |-> v]

\* Texts sent for embedding.
TextPool == {"Hello world", "How are you?"}

FirstText == "Hello world"

\* The lists of texts sent for embedding.  The texts are interchangeable
\* (nothing reads their content), so a list begins with FirstText.
TextLists ==
  {ts \in UNION {[1..n -> TextPool] : n \in 0..MaxTexts} :
     ts # <<>> => ts[1] = FirstText}

\* The lists a direct call of generate_embeddings passes: none or one text.
DirectTextLists == {ts \in TextLists : Len(ts) <= 1}

\* Texts sent for entity extraction.
SampleTexts ==
  { <<>>,
    <<"r", "a", "g", " ", "G", "o">> }

\* What a request of each kind can carry.  "generate" is a direct call of
\* generate_embeddings, as the unit tests make it.
Inputs(kind) ==
  CASE kind = "health"   -> {Absent}
    [] kind = "embed"    -> {Absent} \cup {Given(ts) : ts \in TextLists}
    [] kind = "generate" -> {Given(ts) : ts \in DirectTextLists}
    [] kind = "extract"  -> {Absent} \cup {Given(s) : s \in SampleTexts}

Kinds == {"health", "embed", "generate", "extract"}

\* Faulty variant: texts without min_length.
ValidEmbedRequest_NoMinLength(input) == input.present

\* EmbedRequest.texts: Field(..., min_length=1)
ValidEmbedRequest(input) == input.present /\ Len(input.value) >= 1

\* ExtractEntitiesRequest.text: Field(..., min_length=1)
ValidExtractRequest(input) == input.present /\ Len(input.value) >= 1

\* Request validation, done by the framework before the endpoint is called.
Valid(kind, input) ==
  CASE kind = "embed"   -> ValidEmbedRequest(input)
    [] kind = "extract" -> ValidExtractRequest(input)
    [] OTHER            -> TRUE

\* Faulty variant: endpoints run on worker threads, as def endpoints would.
CanRun_Threaded(t) == TRUE

\* The endpoints are async def and never await: once a unit of work runs on
\* the event loop no other runs until it has finished.
CanRun(t) == running \subseteq {t}

NoBody == [detail |-> "none"]

IdleTask ==
  [kind |-> "none", input |-> Absent, pc |-> "idle", outcome |-> "none",
   status |-> 0, body |-> NoBody, model |-> None, calls |-> {},
   loads |-> 0, loadFailed |-> FALSE, faulted |-> FALSE]

\* health: HealthResponse(status="healthy", model="all-MiniLM-L6-v2", dimension=dim)
HealthResponse(dim) ==
  [status |-> "healthy", model |-> "all-MiniLM-L6-v2", dimension |-> dim]

\* embed: EmbedResponse(embeddings=..., dimension=len(embeddings[0]) if embeddings else 0, count=...)
EmbedResponse(embeddings) ==
  [embeddings |-> embeddings,
   dimension |-> IF embeddings # <<>> THEN Len(embeddings[1]) ELSE 0,
   count |-> Len(embeddings)]

\* extract_entities_dict and ExtractEntitiesResponse(entities=..., count=...)
ExtractEntitiesResponse(es) ==
  [entities |-> [i \in 1..Len(es) |->
                   [name |-> es[i].name, entity_type |-> es[i].entity_type,
                    start |-> es[i].start, end |-> es[i].end,
                    confidence |-> es[i].confidence]],
   count |-> Len(es)]

\* The status an endpoint's except clause gives an exception of the core.
ErrorStatus(kind) == IF kind = "health" THEN 503 ELSE 500

\* How a unit of work ends when an exception reaches it: an HTTPException
\* from an endpoint, the exception itself from a direct call, a failed
\* startup from the lifespan.
Raise(task, what) ==
  CASE task.kind = "lifespan" ->
         [task EXCEPT !.pc = "failed", !.outcome = "startup_failed"]
    [] task.kind = "generate" ->
         [task EXCEPT !.pc = "done", !.outcome = "raised",
                      !.body = [detail |-> what]]
    [] OTHER ->
         [task EXCEPT !.pc = "done", !.outcome = "response",
                      !.status = ErrorStatus(task.kind),
                      !.body = [detail |-> what]]

\* ------------------------------------------------------------------------
\* Actions
\* ------------------------------------------------------------------------

ServerIdle == text = <<>> /\ scanned = <<>> /\ entities = <<>> /\ epc = "off"

Init ==
  /\ _model = None
  /\ loadCount = 0
  /\ running = {}
  /\ \E start \in {"pending", "skipped"} :
       tasks = [t \in Tasks |->
                  IF t = Lifespan
                  THEN [IdleTask EXCEPT !.kind = "lifespan", !.pc = start]
                  ELSE IdleTask]
  /\ ServerIdle

\* The application accepts requests once the lifespan has yielded; a
\* TestClient used without its context manager never runs the lifespan.
Serving == tasks[Lifespan].pc \in {"yielded", "skipped"}

\* lifespan: startup begins.
LifespanStartup ==
  /\ tasks[Lifespan].pc = "pending"
  /\ CanRun(Lifespan)
  /\ running' = running \cup {Lifespan}
  /\ tasks' = [tasks EXCEPT ![Lifespan].pc = "get_model"]
  /\ UNCHANGED <<_model, loadCount, text, scanned, entities, epc>>

\* lifespan: get_model() has returned; yield.
LifespanYield ==
  /\ tasks[Lifespan].pc = "have_model"
  /\ tasks[Lifespan].kind = "lifespan"
  /\ running' = running \ {Lifespan}
  /\ tasks' = [tasks EXCEPT ![Lifespan].pc = "yielded",
                            ![Lifespan].outcome = "startup_complete"]
  /\ UNCHANGED <<_model, loadCount, text, scanned, entities, epc>>

\* A request (or a direct call) is made.  The requests are interchangeable,
\* so they are numbered in the order they arrive.
Arrive(t) ==
  /\ Serving
  /\ tasks[t].pc = "idle"
  /\ \A u \in Requests : u < t => tasks[u].pc # "idle"
  /\ \E kind \in Kinds : \E input \in Inputs(kind) :
       tasks' = [tasks EXCEPT ![t].kind = kind, ![t].input = input,
                              ![t].pc = "received"]
  /\ UNCHANGED <<_model, loadCount, running, text, scanned, entities, epc>>

\* Validation fails: 422, the endpoint is not called.
Reject(t) ==
  /\ tasks[t].pc = "received"
  /\ CanRun(t)
  /\ ~Valid(tasks[t].kind, tasks[t].input)
  /\ tasks' = [tasks EXCEPT ![t].pc = "done", ![t].outcome = "response",
                            ![t].status = 422,
                            ![t].body = [detail |-> "validation"]]
  /\ UNCHANGED <<_model, loadCount, running, text, scanned, entities, epc>>

\* Validation passes: the endpoint (or the called function) starts to run.
Dispatch(t) ==
  /\ tasks[t].pc = "received"
  /\ CanRun(t)
  /\ Valid(tasks[t].kind, tasks[t].input)
  /\ running' = running \cup {t}
  /\ tasks' = [tasks EXCEPT ![t].pc = "handler"]
  /\ UNCHANGED <<_model, loadCount, text, scanned, entities, epc>>

\* health: dim = get_embedding_dimension(), which calls get_model().
HealthCall(t) ==
  /\ tasks[t].pc = "handler"
  /\ tasks[t].kind = "health"
  /\ tasks' = [tasks EXCEPT ![t].pc = "get_model",
                            ![t].calls = @ \cup {"get_embedding_dimension"}]
  /\ UNCHANGED <<_model, loadCount, running, text, scanned, entities, epc>>

\* embed: generate_embeddings(request.texts), up to model = get_model().
GenerateEmbeddingsCall(t) ==
  /\ tasks[t].pc = "handler"
  /\ tasks[t].kind \in {"embed", "generate"}
  /\ LET task == [tasks[t] EXCEPT !.calls = @ \cup {"generate_embeddings"}]
     IN  IF EmptyShortCircuit(task.input.value)
         THEN /\ running' = running \ {t}
              /\ tasks' = [tasks EXCEPT ![t] =
                   IF task.kind = "generate"
                   THEN [task EXCEPT !.pc = "done", !.outcome = "returned",
                                     !.body = [embeddings |-> <<>>]]
                   ELSE [task EXCEPT !.pc = "done", !.outcome = "response",
                                     !.status = 200,
                                     !.body = EmbedResponse(<<>>)]]
         ELSE /\ running' = running
              /\ tasks' = [tasks EXCEPT ![t] = [task EXCEPT !.pc = "get_model"]]
  /\ UNCHANGED <<_model, loadCount, text, scanned, entities, epc>>

\* extract_entities endpoint: extract_entities_dict(request.text) and the response.
ExtractEntitiesCall(t) ==
  /\ tasks[t].pc = "handler"
  /\ tasks[t].kind = "extract"
  /\ running' = running \ {t}
  /\ tasks' = [tasks EXCEPT ![t].pc = "done", ![t].outcome = "response",
                            ![t].status = 200,
                            ![t].calls = @ \cup {"extract_entities"},
                            ![t].body = ExtractEntitiesResponse(
                                          extract_entities(tasks[t].input.value))]
  /\ UNCHANGED <<_model, loadCount, text, scanned, entities, epc>>

\* get_model: the test of _model, and either the start of the load or the return.
GetModel(t) ==
  /\ tasks[t].pc = "get_model"
  /\ LET task == [tasks[t] EXCEPT !.calls = @ \cup {"get_model"}]
     IN  IF NeedsLoad(_model)
         THEN /\ loadCount' = loadCount + 1
              /\ tasks' = [tasks EXCEPT ![t] =
                             [task EXCEPT !.pc = "loading", !.loads = @ + 1]]
         ELSE /\ loadCount' = loadCount
              /\ tasks' = [tasks EXCEPT ![t] =
                             [task EXCEPT !.pc = "have_model", !.model = _model]]
  /\ UNCHANGED <<_model, running, text, scanned, entities, epc>>

\* get_model: SentenceTransformer(MODEL_NAME) returns; _model is assigned and returned.
LoadOk(t) ==
  /\ tasks[t].pc = "loading"
  /\ _model' = SentenceTransformer(loadCount)
  /\ tasks' = [tasks EXCEPT ![t].pc = "have_model", ![t].model = _model']
  /\ UNCHANGED <<loadCount, running, text, scanned, entities, epc>>

\* get_model: SentenceTransformer(MODEL_NAME) raises.
LoadFail(t) ==
  /\ tasks[t].pc = "loading"
  /\ _model' = ModelAfterFailedLoad(_model, loadCount)
  /\ running' = running \ {t}
  /\ tasks' = [tasks EXCEPT ![t] =
       Raise([tasks[t] EXCEPT !.loadFailed = TRUE, !.faulted = TRUE], "load failed")]
  /\ UNCHANGED <<loadCount, text, scanned, entities, epc>>

\* health: the dimension of the model and the response.
HealthReturn(t) ==
  /\ tasks[t].pc = "have_model"
  /\ tasks[t].kind = "health"
  /\ running' = running \ {t}
  /\ tasks' = [tasks EXCEPT ![t] =
       IF tasks[t].model.ready
       THEN [tasks[t] EXCEPT !.pc = "done", !.outcome = "response", !.status = 200,
               !.body = HealthResponse(GetSentenceEmbeddingDimension(tasks[t].model))]
       ELSE Raise(tasks[t], "model not initialised")]
  /\ UNCHANGED <<_model, loadCount, text, scanned, entities, epc>>

\* generate_embeddings: model.encode(...) returns; the lists and the response.
EncodeReturn(t) ==
  /\ tasks[t].pc = "have_model"
  /\ tasks[t].kind \in {"embed", "generate"}
  /\ running' = running \ {t}
  /\ tasks' = [tasks EXCEPT ![t] =
       IF tasks[t].model.ready
       THEN LET embeddings == ToLists(Encode(tasks[t].input.value))
            IN  IF tasks[t].kind = "generate"
                THEN [tasks[t] EXCEPT !.pc = "done", !.outcome = "returned",
                                      !.body = [embeddings |-> embeddings]]
                ELSE [tasks[t] EXCEPT !.pc = "done", !.outcome = "response",
                                      !.status = 200,
                                      !.body = EmbedResponse(embeddings)]
       ELSE Raise(tasks[t], "model not initialised")]
  /\ UNCHANGED <<_model, loadCount, text, scanned, entities, epc>>

\* generate_embeddings: model.encode(...) raises.
EncodeFail(t) ==
  /\ tasks[t].pc = "have_model"
  /\ tasks[t].kind \in {"embed", "generate"}
  /\ running' = running \ {t}
  /\ tasks' = [tasks EXCEPT ![t] =
       Raise([tasks[t] EXCEPT !.faulted = TRUE], "encode failed")]
  /\ UNCHANGED <<_model, loadCount, text, scanned, entities, epc>>

Next ==
  \/ LifespanStartup
  \/ LifespanYield
  \/ \E t \in Requests : Arrive(t)
  \/ \E t \in Requests : Reject(t)
  \/ \E t \in Requests : Dispatch(t)
  \/ \E t \in Requests : HealthCall(t)
  \/ \E t \in Requests : GenerateEmbeddingsCall(t)
  \/ \E t \in Requests : ExtractEntitiesCall(t)
  \/ \E t \in Tasks : GetModel(t)
  \/ \E t \in Tasks : LoadOk(t)
  \/ \E t \in Tasks : LoadFail(t)
  \/ \E t \in Requests : HealthReturn(t)
  \/ \E t \in Requests : EncodeReturn(t)
  \/ \E t \in Requests : EncodeFail(t)

Spec == Init /\ [][Next]_vars

\* ------------------------------------------------------------------------
\* The extractor on its own: extract_entities applied to one input text
\* ------------------------------------------------------------------------

\* The pieces the input texts are concatenated from.
Pieces ==
  { <<"G", "o">>,
    <<"g", "o">>,
    <<" ">>,
    <<"-">>,
    <<"J", "a", "v", "a">>,
    <<"S", "c", "r", "i", "p", "t">>,
    <<"r", "a", "g">>,
    <<"2", "0", "2", "4", "-", "0", "1", "-", "1", "5">>,
    <<"1", "/", "2", "/">> }

RECURSIVE Concat(_)

Concat(ps) == IF ps = <<>> THEN <<>> ELSE Head(ps) \o Concat(Tail(ps))

InputTexts == {Concat(ps) : ps \in UNION {[1..n -> Pieces] : n \in 0..MaxPieces}}

InitEntities ==
  /\ _model = None
  /\ loadCount = 0
  /\ running = {}
  /\ tasks = [t \in Tasks |-> IdleTask]
  /\ text \in InputTexts
  /\ scanned = <<>>
  /\ entities = <<>>
  /\ epc = "start"

\* entities = extract_entities(text)
Extract ==
  /\ epc = "start"
  /\ scanned' = Scan(text)
  /\ entities' = ExtractFrom(scanned')
  /\ epc' = "done"
  /\ UNCHANGED <<_model, loadCount, running, tasks, text>>

NextEntities == Extract

SpecEntities == InitEntities /\ [][NextEntities]_vars

\* ------------------------------------------------------------------------
\* Properties
\* ------------------------------------------------------------------------

\* The tasks inside SentenceTransformer(MODEL_NAME).
Loading == {t \in Tasks : tasks[t].pc = "loading"}

\* The embedding of a text, as a list.
ExpectedEmbedding(t) == [j \in 1..VectorLen |-> <<t, j - 1>>]

\* The response a request gets when nothing fails.
ExpectedBody(kind, input) ==
  IF kind = "health"
  THEN [status |-> "healthy", model |-> "all-MiniLM-L6-v2", dimension |-> VectorLen]
  ELSE [embeddings |-> [i \in 1..Len(input.value) |-> ExpectedEmbedding(input.value[i])],
        dimension |-> VectorLen,
        count |-> Len(input.value)]

\* (name.lower(), start, end) of an entity.
Triple(e) == <<LowerStr(e.name), e.start, e.end>>

\* The place of an entity in the order the scan produced the matches.
ScanIndex(e) ==
  LET at == {k \in 1..Len(scanned) : scanned[k] = e}
  IN  CHOOSE k \in at : \A l \in at : k <= l

\* C1: at most one model load is in progress at any time, and no caller
\* tests _model while a load is under way: a request that arrives during a
\* load waits for the running unit of work to finish.
C1_AtMostOneLoad ==
  /\ Cardinality(Loading) <= 1
  /\ \A u \in Tasks : tasks[u].pc = "get_model" => Loading = {}

\* C1 witness: a task is loading the model while a valid /health or /embed
\* request has arrived and waits.
C1_Witness ==
  \E t \in Tasks : \E u \in Requests :
    /\ t # u
    /\ tasks[t].pc = "loading"
    /\ _model = None
    /\ tasks[u].pc = "received"
    /\ tasks[u].kind \in {"health", "embed"}
    /\ tasks[u].input.present \/ tasks[u].kind = "health"

\* C2: once the model is loaded, _model never changes, no further load is
\* begun, and every handle a call of get_model has returned is that model.
C2_LoadedOnce ==
  [][(_model # None) =>
       /\ _model' = _model
       /\ loadCount' = loadCount
       /\ \A t \in Tasks : tasks'[t].model \in {None, _model}]_vars

\* C2 witness: one task loaded the model and another task's later call of
\* get_model returned the same handle without loading.
C2_Witness ==
  \E t \in Tasks : \E u \in Requests :
    /\ t # u
    /\ tasks[t].loads = 1
    /\ tasks[u].loads = 0
    /\ "get_model" \in tasks[u].calls
    /\ tasks[u].pc = "done"
    /\ _model # None
    /\ tasks[u].model = _model

\* C3: generate_embeddings called with an empty list returns the empty list
\* in that step, calls neither get_model nor encode, begins no load and
\* leaves _model as it was.
C3_EmptyBatch ==
  [][\A t \in Requests :
       ( /\ tasks[t].kind \in {"embed", "generate"}
         /\ tasks[t].pc = "handler"
         /\ tasks[t].input.value = <<>>
         /\ tasks'[t] # tasks[t] )
       => /\ tasks'[t].pc = "done"
          /\ tasks'[t].outcome \in {"returned", "response"}
          /\ tasks'[t].body.embeddings = <<>>
          /\ "get_model" \notin tasks'[t].calls
          /\ tasks'[t].loads = 0
          /\ _model' = _model
          /\ loadCount' = loadCount]_vars

\* C3 witness: a direct call with the empty list has returned and the model
\* is still not loaded.
C3_Witness ==
  \E t \in Requests :
    /\ tasks[t].kind = "generate"
    /\ tasks[t].input.value = <<>>
    /\ tasks[t].pc = "done"
    /\ tasks[t].outcome = "returned"
    /\ tasks[t].body = [embeddings |-> <<>>]
    /\ _model = None
    /\ loadCount = 0

\* C4: a successful generate_embeddings call on a non-empty list returns one
\* vector per text, the vector at position i the embedding of text i.
C4_OneVectorPerText ==
  \A t \in Requests :
    ( /\ tasks[t].kind \in {"embed", "generate"}
      /\ tasks[t].pc = "done"
      /\ tasks[t].outcome = "returned" \/ tasks[t].status = 200
      /\ tasks[t].input.value # <<>> )
    => LET in  == tasks[t].input.value
           out == tasks[t].body.embeddings
       IN  /\ Len(out) = Len(in)
           /\ \A i \in 1..Len(in) : out[i] = ExpectedEmbedding(in[i])

\* C4 witness: /embed has answered 200 for a list of two different texts.
C4_Witness ==
  \E t \in Requests :
    /\ tasks[t].kind = "embed"
    /\ tasks[t].pc = "done"
    /\ tasks[t].status = 200
    /\ Len(tasks[t].input.value) >= 2
    /\ tasks[t].input.value[1] # tasks[t].input.value[2]

\* C5: every returned entity has 0 <= start < end <= len(text) and its name
\* is text[start:end], character for character.
C5_VerbatimSpan ==
  epc = "done" =>
    \A i \in 1..Len(entities) :
      LET e == entities[i]
      IN  /\ 0 <= e.start
          /\ e.start < e.end
          /\ e.end <= Len(text)
          /\ e.name = SubSeq(text, e.start + 1, e.end)

\* C5 witness: an entity with an upper-case letter in its name that does not
\* start at offset 0 has been returned.
C5_Witness ==
  /\ epc = "done"
  /\ \E i \in 1..Len(entities) :
       /\ entities[i].start > 0
       /\ entities[i].name # LowerStr(entities[i].name)

\* C6: no two returned entities have the same (name.lower(), start, end),
\* and every match of the scan is returned under its triple, so equal names
\* at different positions are all kept.
C6_DistinctTriples ==
  epc = "done" =>
    /\ \A i, j \in 1..Len(entities) :
         i # j => Triple(entities[i]) # Triple(entities[j])
    /\ \A k \in 1..Len(scanned) :
         \E i \in 1..Len(entities) : Triple(entities[i]) = Triple(scanned[k])

\* C6 witness: two returned entities have the same lowercased name, in
\* different casing, at different positions.
C6_Witness ==
  /\ epc = "done"
  /\ \E i, j \in 1..Len(entities) :
       /\ i # j
       /\ entities[i].name # entities[j].name
       /\ LowerStr(entities[i].name) = LowerStr(entities[j].name)

\* C7: the returned list is ascending by start, and entities with equal
\* start are in the order the scan produced them.
C7_SortedByStart ==
  epc = "done" =>
    \A i, j \in 1..Len(entities) :
      i < j =>
        /\ entities[i].start <= entities[j].start
        /\ entities[i].start = entities[j].start
             => ScanIndex(entities[i]) < ScanIndex(entities[j])

\* C7 witness: the returned list has the matches of the scan in another
\* order than the scan produced them.
C7_Witness ==
  /\ epc = "done"
  /\ Len(entities) >= 2
  /\ Len(entities) = Len(scanned)
  /\ \E i \in 1..Len(entities) : entities[i] # scanned[i]

\* C8: a /health or /embed request during which the model failed to load is
\* answered 503, after a single load attempt.
C8_LoadFailureIs503 ==
  \A t \in Requests :
    ( /\ tasks[t].kind \in {"health", "embed"}
      /\ tasks[t].pc = "done"
      /\ tasks[t].loadFailed )
    => /\ tasks[t].status = 503
       /\ tasks[t].loads = 1

\* C9: _model is never half-initialised; a /health or /embed request in
\* which a load or an encode failed ends in an HTTP error with a detail, and
\* one in which none failed is answered 200 with the response its input
\* alone determines, whatever requests failed before it.
C9_FailuresIsolated ==
  /\ _model = None \/ _model.ready
  /\ \A t \in Requests :
       ( /\ tasks[t].kind \in {"health", "embed"}
         /\ tasks[t].pc = "done"
         /\ tasks[t].status # 422 )
       => IF tasks[t].faulted
          THEN /\ tasks[t].outcome = "response"
               /\ tasks[t].status \in {500, 503}
               /\ DOMAIN tasks[t].body = {"detail"}
          ELSE /\ tasks[t].outcome = "response"
               /\ tasks[t].status = 200
               /\ tasks[t].body = ExpectedBody(tasks[t].kind, tasks[t].input)

\* C9 witness: a request failed in its model load, and another request
\* then loaded the model itself and was answered 200.
C9_Witness ==
  \E t, u \in Requests :
    /\ t # u
    /\ tasks[t].pc = "done"
    /\ tasks[t].loadFailed
    /\ tasks[t].status \in {500, 503}
    /\ tasks[u].pc = "done"
    /\ tasks[u].kind = "embed"
    /\ tasks[u].loads = 1
    /\ tasks[u].status = 200

\* C10: a POST /embed or /extract-entities whose field is missing or empty
\* is answered 422 in its first step: no core function is called for it, no
\* load is begun, and _model and the event loop are as they were.
C10_InvalidNeverDispatched ==
  [][\A t \in Requests :
       ( /\ tasks[t].pc = "received"
         /\ tasks[t].kind \in {"embed", "extract"}
         /\ ~tasks[t].input.present \/ tasks[t].input.value = <<>>
         /\ tasks'[t] # tasks[t] )
       => /\ tasks'[t].pc = "done"
          /\ tasks'[t].status = 422
          /\ tasks'[t].calls = {}
          /\ tasks'[t].loads = 0
          /\ _model' = _model
          /\ loadCount' = loadCount
          /\ running' = running]_vars

\* C10 witness: an /embed with an empty list and an /extract-entities
\* without text have both been answered 422 with no core call.
C10_Witness ==
  \E t, u \in Requests :
    /\ tasks[t].kind = "embed"
    /\ tasks[t].input = Given(<<>>)
    /\ tasks[t].status = 422
    /\ tasks[t].calls = {}
    /\ tasks[u].kind = "extract"
    /\ tasks[u].input = Absent
    /\ tasks[u].status = 422
    /\ tasks[u].calls = {}

====
